---- MODULE Spec2Model ----
(***************************************************************************)
(* ds-pinyin-lsp: the language server of packages/ds-pinyin-lsp/src/main.rs *)
(* as a state machine.  The state is the Backend struct (setting, conn,     *)
(* documents); there is one action per LanguageServer handler.              *)
(*                                                                          *)
(* A Rust String is modelled as the sequence of its UTF-8 bytes, an LSP     *)
(* Position counts UTF-16 code units, and the text a client sends is a      *)
(* sequence of characters: Encode turns the latter into the former.         *)
(***************************************************************************)
EXTENDS Integers, Sequences, FiniteSets, TLC

\* ------------------------------------------------------------------ bounds

\* Most characters the model lets the store hold, over all its documents.
MaxChars == 2
\* Most content changes in one did_change notification.
MaxBatch == 2
\* Largest line number and largest UTF-16 column of a Position a client sends.
MaxLine == 1
MaxCol == 2

\* ------------------------------------------------------------- Option<T>

None == [some |-> FALSE]
Some(x) == [some |-> TRUE, v |-> x]
unwrap_or(o, d) == IF o.some THEN o.v ELSE d

\* ------------------------------------------------------ characters, bytes

\* The characters of the model: a lowercase letter, a line feed and a CJK
\* character (U+4E2D: three UTF-8 bytes, one UTF-16 unit).
Chars == {"a", "LF", "U4E2D"}

\* char::len_utf8 / the UTF-8 encoding of one character.
EncodeChar(c) == IF c = "U4E2D" THEN <<"E4", "B8", "AD">> ELSE <<c>>

\* String::from of the text a client sends: its UTF-8 bytes.
RECURSIVE Encode(_)
Encode(cs) == IF cs = <<>> THEN <<>> ELSE EncodeChar(Head(cs)) \o Encode(Tail(cs))

\* Length in bytes of the character whose first byte is b (str::chars).
len_utf8(b) == IF b = "E4" THEN 3 ELSE 1
\* Length in UTF-16 code units of the character whose first byte is b: every
\* character of the model is in the basic plane.
len_utf16(b) == 1

\* str::chars, as the inverse of Encode: the characters of a byte string.
RECURSIVE Decode(_)
Decode(bs) ==
    IF bs = <<>> THEN <<>>
    ELSE LET w == len_utf8(Head(bs))
         IN  <<IF w = 3 THEN "U4E2D" ELSE Head(bs)>> \o Decode(SubSeq(bs, w + 1, Len(bs)))

\* s[from..to) with 0-based byte offsets, as Rust slices a str.
Slice(s, from, to) == SubSeq(s, from + 1, to)

\* All character sequences of length at most n.
RECURSIVE SeqsUpTo(_, _)
SeqsUpTo(S, n) ==
    IF n = 0 THEN {<<>>}
    ELSE LET shorter == SeqsUpTo(S, n - 1)
         IN  shorter \cup {Append(s, x) : s \in shorter, x \in S}

\* ------------------------------------------- lsp_document::IndexedText

\* The scan of IndexedText::new: the byte range of every line, its line feed
\* included; pos is the offset of the next character, start the offset at
\* which the current line began (-1: no line is open).
RECURSIVE ScanLines(_, _, _)
ScanLines(text, pos, start) ==
    IF pos >= Len(text)
    THEN IF start # -1 THEN <<[start |-> start, end |-> Len(text)]>> ELSE <<>>
    ELSE LET b == text[pos + 1]
             w == len_utf8(b)
             ls == IF start = -1 THEN pos ELSE start
         IN  IF b = "LF"
             THEN <<[start |-> ls, end |-> pos + w]>> \o ScanLines(text, pos + w, -1)
             ELSE ScanLines(text, pos + w, ls)

\* IndexedText::new(text): the text and its line index, which ends with an
\* artificial blank line.
IndexedText_new(text) ==
    [text |-> text,
     line_ranges |-> ScanLines(text, 0, -1)
                     \o <<[start |-> Len(text), end |-> Len(text)]>>]

\* IndexedText::line_range: None for a line the index does not hold.
line_range(document, line) ==
    IF line < Len(document.line_ranges)
    THEN LET r == document.line_ranges[line + 1]
         IN  Some([start |-> [line |-> line, col |-> 0],
                   end |-> [line |-> line, col |-> r.end - r.start]])
    ELSE None

\* IndexedText::pos_to_offset: the byte offset of a (line, byte column).
pos_to_offset(document, pos) == document.line_ranges[pos.line + 1].start + pos.col

\* IndexedText::substr over a range of Pos.
substr(document, range) ==
    Slice(document.text, pos_to_offset(document, range.start),
          pos_to_offset(document, range.end))

\* The loop of TextAdapter::lsp_pos_to_pos: walk the characters of a line
\* until `character` UTF-16 units are counted; the byte column reached, or -1
\* when the count never equals `character` (the column is past the line).
RECURSIVE WalkLine(_, _, _, _)
WalkLine(line, u8_offset, u16_offset, character) ==
    IF u16_offset = character THEN u8_offset
    ELSE IF u8_offset >= Len(line) THEN -1
    ELSE WalkLine(line, u8_offset + len_utf8(line[u8_offset + 1]),
                  u16_offset + len_utf16(line[u8_offset + 1]), character)

\* TextAdapter::lsp_pos_to_pos: an LSP Position (UTF-16 column) as a Pos (byte
\* column); None when the index cannot translate it.
lsp_pos_to_pos(document, lsp_pos) ==
    LET lr == line_range(document, lsp_pos.line)
    IN  IF ~lr.some THEN None
        ELSE LET col == WalkLine(substr(document, lr.v), 0, 0, lsp_pos.character)
             IN  IF col = -1 THEN None
                 ELSE Some([line |-> lsp_pos.line, col |-> col])

\* TextAdapter::lsp_range_to_range.
lsp_range_to_range(document, lsp_range) ==
    LET s == lsp_pos_to_pos(document, lsp_range.start)
        e == lsp_pos_to_pos(document, lsp_range.end)
    IN  IF s.some /\ e.some THEN Some([start |-> s.v, end |-> e.v]) ELSE None

\* TextAdapter::lsp_change_to_change: a TextDocumentContentChangeEvent as a
\* TextChange; its text becomes a String.
lsp_change_to_change(document, change) ==
    IF change.range.some
    THEN LET r == lsp_range_to_range(document, change.range.v)
         IN  IF r.some THEN Some([range |-> Some(r.v), patch |-> Encode(change.text)])
             ELSE None
    ELSE Some([range |-> None, patch |-> Encode(change.text)])

\* lsp_document::apply_change: the text with the change's range replaced by
\* its patch, or the patch alone when the change has no range.
apply_change(document, change) ==
    IF ~change.range.some THEN change.patch
    ELSE LET offset_start == pos_to_offset(document, change.range.v.start)
             offset_end == pos_to_offset(document, change.range.v.end)
         IN  Slice(document.text, 0, offset_start) \o change.patch
             \o Slice(document.text, offset_end, Len(document.text))

\* ------------------------------------------------ ds_pinyin_lsp::utils

\* The bytes get_pinyin takes for pinyin letters: ASCII lowercase.
LowerLetters == {"a"}

\* utils::get_pre_line: the text of the cursor's line from the line start to
\* the cursor; None without a document or when the index cannot translate
\* the cursor.
get_pre_line(document, position) ==
    IF ~document.some THEN None
    ELSE LET range == lsp_range_to_range(document.v,
                          [start |-> [line |-> position.line, character |-> 0],
                           end |-> position])
         IN  IF range.some THEN Some(substr(document.v, range.v)) ELSE None

\* The longest suffix of s made of lowercase letters.
RECURSIVE LetterSuffix(_)
LetterSuffix(s) ==
    IF s = <<>> \/ s[Len(s)] \notin LowerLetters THEN <<>>
    ELSE Append(LetterSuffix(SubSeq(s, 1, Len(s) - 1)), s[Len(s)])

\* utils::get_pinyin: the maximal run of lowercase letters that ends
\* pre_line; None when pre_line does not end with a letter.
get_pinyin(pre_line) ==
    IF LetterSuffix(pre_line) = <<>> THEN None ELSE Some(LetterSuffix(pre_line))

\* The dictionary stores a session may open, by db-path.
DbPaths == {"p1", "p2"}

\* The words table of the store at a path, best priority first: multi-character
\* words by pinyin spelling.
WordsTable(path) ==
    IF path = "p1"
    THEN <<[pinyin |-> <<"a", "a">>, hanzi |-> "W1"],
           [pinyin |-> <<"a", "a", "a">>, hanzi |-> "W2"]>>
    ELSE <<>>

\* The dict table of the store at a path: single characters by syllable.
DictTable(path) ==
    IF path = "p1"
    THEN <<[pinyin |-> <<"a">>, hanzi |-> "D1"]>>
    ELSE <<[pinyin |-> <<"a">>, hanzi |-> "D2"], [pinyin |-> <<"a">>, hanzi |-> "D3"]>>

IsPrefix(p, s) == Len(p) <= Len(s) /\ SubSeq(s, 1, Len(p)) = p

\* The hanzi column of the rows of a table whose pinyin is `pinyin` (exact) or
\* starts with it, in table order.
RECURSIVE SelectHanzi(_, _, _)
SelectHanzi(table, pinyin, exact) ==
    IF table = <<>> THEN <<>>
    ELSE LET row == Head(table)
             hit == IF exact THEN row.pinyin = pinyin ELSE IsPrefix(pinyin, row.pinyin)
         IN  (IF hit THEN <<row.hanzi>> ELSE <<>>)
             \o SelectHanzi(Tail(table), pinyin, exact)

\* A Result<Vec<Suggest>>.
Ok(rows) == [ok |-> TRUE, rows |-> rows]
Err == [ok |-> FALSE]

\* utils::query_words(conn, pinyin, exact): the words spelled pinyin (exact)
\* or whose spelling starts with pinyin; Err when the query fails.
query_words(connection, pinyin, exact, fails) ==
    IF fails THEN Err ELSE Ok(SelectHanzi(WordsTable(connection), pinyin, exact))

\* utils::query_dict(conn, pinyin): the single characters whose syllable is or
\* starts with pinyin; Err when the query fails.
query_dict(connection, pinyin, fails) ==
    IF fails THEN Err ELSE Ok(SelectHanzi(DictTable(connection), pinyin, FALSE))

\* utils::suggest_to_completion_item: one item per suggestion, in order, its
\* text as label and insert text, all with the same replacement range.
suggest_to_completion_item(suggest, range) ==
    [i \in 1..Len(suggest) |->
        [label |-> suggest[i], new_text |-> suggest[i], range |-> range]]

\* ------------------------------------------------------------ the state

Uris == {"u1", "u2"}

VARIABLES
    setting,    \* Backend.setting: Option<Setting>, the db_path of the session
    conn,       \* Backend.conn: Option<Connection>, by the path it was opened on
    documents,  \* Backend.documents: uri -> Option<IndexedText<String>>
    refdocs,    \* reference store: uri -> Option<the characters of the document>
    last,       \* the handler that ran last: its request and what it returned
    tasks,      \* the requests in flight: where each handler is, and its locals
    locks       \* who holds the setting Mutex, the conn Mutex, the entry's guards

vars == <<setting, conn, documents, refdocs, last, tasks, locks>>

\* No lock is held.
Unlocked == [setting |-> {}, conn |-> {}, entry_mut |-> {}, entry_ref |-> {}]

\* No handler has returned since the server last took a message.
Idle == [op |-> "idle"]

\* LspService::build: the Backend of main().
Init ==
    /\ setting = None
    /\ conn = None
    /\ documents = [u \in Uris |-> None]
    /\ refdocs = [u \in Uris |-> None]
    /\ last = Idle
    /\ tasks = <<>>
    /\ locks = Unlocked

\* ------------------------------------------------------- request inputs

Positions == [line : 0..MaxLine, character : 0..MaxCol]

PosLeq(p, q) == p.line < q.line \/ (p.line = q.line /\ p.character <= q.character)

\* LSP ranges: the start is not after the end.
Ranges == {r \in [start : Positions, end : Positions] : PosLeq(r.start, r.end)}

Insert(pos, text) == [range |-> Some([start |-> pos, end |-> pos]), text |-> text]
Replace(from, to, text) == [range |-> Some([start |-> from, end |-> to]), text |-> text]
At(l, c) == [line |-> l, character |-> c]

\* The content changes that batches of several changes are made of.
ChangeSet ==
    {[range |-> None, text |-> <<"a">>],
     Insert(At(0, 0), <<"U4E2D">>),
     Insert(At(0, 1), <<"a">>),
     Insert(At(0, 1), <<"LF">>),
     Replace(At(0, 1), At(1, 0), <<"a">>)}

\* Every single content change over the positions of the model that deletes
\* its range or puts a three-byte character in its place.
Changes == [range : {None} \cup {Some(r) : r \in Ranges}, text : {<<>>, <<"U4E2D">>}]

RECURSIVE SeqsOfLen(_, _)
SeqsOfLen(S, n) ==
    IF n = 0 THEN {<<>>}
    ELSE {<<x>> \o s : x \in S, s \in SeqsOfLen(S, n - 1)}

\* The content_changes of a did_change: any single change, or up to MaxBatch
\* changes of ChangeSet.
Batches == {<<c>> : c \in Changes} \cup UNION {SeqsOfLen(ChangeSet, n) : n \in 0..MaxBatch}

\* The texts did_open is called with.
OpenTexts == SeqsUpTo(Chars, MaxChars)

\* The characters the store holds over all documents.
StoredChars(docs) ==
    LET n(u) == IF docs[u].some THEN Len(Decode(docs[u].v.text)) ELSE 0
    IN  n("u1") + n("u2")

\* ------------------------------------------- reference full-text model

\* The reference keeps a document as the characters the client sees and
\* addresses it by (line, column) directly, with no byte index.
LineFeeds(cs) == {i \in 1..Len(cs) : cs[i] = "LF"}

\* The offset at which line l starts: after the l-th line feed; a text that
\* does not end with a line feed is followed by one more, empty, line.  -1
\* when there is no such line.
RefLineStart(cs, l) ==
    LET after == {i \in LineFeeds(cs) : Cardinality({j \in LineFeeds(cs) : j <= i}) = l}
    IN  IF l = 0 THEN 0
        ELSE IF after # {} THEN CHOOSE i \in after : TRUE
        ELSE IF /\ l = Cardinality(LineFeeds(cs)) + 1
                /\ cs # <<>>
                /\ cs[Len(cs)] # "LF" THEN Len(cs)
        ELSE -1

\* The offset just after line l's line feed, or the end of the text.
RefLineEnd(cs, start) ==
    LET next == {i \in LineFeeds(cs) : i > start}
    IN  IF next = {} THEN Len(cs) ELSE CHOOSE i \in next : \A j \in next : i <= j

\* The offset of a Position, -1 when the Position is not in the text.
RefOffset(cs, pos) ==
    LET start == RefLineStart(cs, pos.line)
    IN  IF start = -1 THEN -1
        ELSE IF start + pos.character <= RefLineEnd(cs, start)
             THEN start + pos.character
             ELSE -1

\* One content change on the reference text: a change whose range is not in
\* the text leaves it as it is.
RefChange(cs, change) ==
    IF ~change.range.some THEN change.text
    ELSE LET s == RefOffset(cs, change.range.v.start)
             e == RefOffset(cs, change.range.v.end)
         IN  IF s = -1 \/ e = -1 THEN cs
             ELSE SubSeq(cs, 1, s) \o change.text \o SubSeq(cs, e + 1, Len(cs))

RECURSIVE RefChanges(_, _)
RefChanges(cs, changes) ==
    IF changes = <<>> THEN cs
    ELSE RefChanges(RefChange(cs, Head(changes)), Tail(changes))

\* ------------------------------------------------- document handlers

\* Backend::did_open: insert a fresh IndexedText under the uri.
did_open(uri, text) ==
    /\ documents' = [documents EXCEPT ![uri] = Some(IndexedText_new(Encode(text)))]
    /\ refdocs' = [refdocs EXCEPT ![uri] = Some(text)]
    /\ StoredChars(documents') <= MaxChars
    /\ last' = [op |-> "did_open", uri |-> uri, text |-> text]
    /\ UNCHANGED <<setting, conn>>

\* Mutant of change_step: the new content is computed but the document is
\* not replaced by it.
change_step_discard(document, change) == document

\* One turn of the loop of did_change: a change the document's index
\* translates is applied and the document rebuilt; any other is passed over.
change_step(document, change) ==
    LET c == lsp_change_to_change(document, change)
    IN  IF c.some THEN IndexedText_new(apply_change(document, c.v)) ELSE document

\* Mutant of change_loop: the loop ends at the first change the index does
\* not translate; the changes after it are not applied.
RECURSIVE change_loop_stop_at_skip(_, _)
change_loop_stop_at_skip(document, content_changes) ==
    IF content_changes = <<>> THEN <<>>
    ELSE IF lsp_change_to_change(document, Head(content_changes)).some
    THEN LET d == change_step(document, Head(content_changes))
         IN  <<d>> \o change_loop_stop_at_skip(d, Tail(content_changes))
    ELSE [i \in 1..Len(content_changes) |-> document]

\* Mutant of change_loop: the changes are applied last first.
RECURSIVE change_loop_last_first(_, _)
change_loop_last_first(document, content_changes) ==
    IF content_changes = <<>> THEN <<>>
    ELSE LET rest == change_loop_last_first(document, Tail(content_changes))
             d == IF rest = <<>> THEN document ELSE rest[Len(rest)]
             c == lsp_change_to_change(d, Head(content_changes))
         IN  Append(rest, IF c.some THEN IndexedText_new(apply_change(d, c.v)) ELSE d)

\* The loop of did_change over content_changes, in list order: the document
\* as each turn leaves it.
RECURSIVE change_loop(_, _)
change_loop(document, content_changes) ==
    IF content_changes = <<>> THEN <<>>
    ELSE LET d == change_step(document, Head(content_changes))
         IN  <<d>> \o change_loop(d, Tail(content_changes))

\* documents.entry(uri).or_insert(IndexedText::new(String::new())).
entry_or_insert(uri) == unwrap_or(documents[uri], IndexedText_new(<<>>))

\* The document the entry holds when did_change returns.
Changed(entry, steps) == IF steps = <<>> THEN entry ELSE steps[Len(steps)]

\* Mutant of did_change: a uri without an entry is passed over.
did_change_existing_only(uri, content_changes) ==
    LET steps == change_loop(entry_or_insert(uri), content_changes)
    IN  /\ documents' = IF documents[uri].some
                         THEN [documents EXCEPT
                                  ![uri] = Some(Changed(entry_or_insert(uri), steps))]
                         ELSE documents
        /\ refdocs' = [refdocs EXCEPT
                          ![uri] = Some(RefChanges(unwrap_or(refdocs[uri], <<>>),
                                                   content_changes))]
        /\ StoredChars(documents') <= MaxChars
        /\ last' = [op |-> "did_change", uri |-> uri, had_entry |-> documents[uri].some,
                    content_changes |-> content_changes, steps |-> steps]
        /\ UNCHANGED <<setting, conn>>

\* Backend::did_change.  steps keeps the document as each change left it.
did_change(uri, content_changes) ==
    LET steps == change_loop(entry_or_insert(uri), content_changes)
    IN  /\ documents' = [documents EXCEPT
                            ![uri] = Some(Changed(entry_or_insert(uri), steps))]
        /\ refdocs' = [refdocs EXCEPT
                          ![uri] = Some(RefChanges(unwrap_or(refdocs[uri], <<>>),
                                                   content_changes))]
        /\ StoredChars(documents') <= MaxChars
        /\ last' = [op |-> "did_change", uri |-> uri, had_entry |-> documents[uri].some,
                    content_changes |-> content_changes, steps |-> steps]
        /\ UNCHANGED <<setting, conn>>

\* Mutant of did_close: the store is cleared, not only the entry of the uri.
did_close_clear(uri) ==
    /\ documents' = [u \in Uris |-> None]
    /\ refdocs' = [u \in Uris |-> None]
    /\ last' = [op |-> "did_close", uri |-> uri, had_entry |-> documents[uri].some,
                notify |-> [method |-> "log_message", type |-> "INFO"]]
    /\ UNCHANGED <<setting, conn>>

\* Mutant of did_close: the close is logged and the entry kept.
did_close_log_only(uri) ==
    /\ last' = [op |-> "did_close", uri |-> uri, had_entry |-> documents[uri].some,
                notify |-> [method |-> "log_message", type |-> "INFO"]]
    /\ UNCHANGED <<setting, conn, documents, refdocs>>

\* Backend::did_close: remove the entry, then log.
did_close(uri) ==
    /\ documents' = [documents EXCEPT ![uri] = None]
    /\ refdocs' = [refdocs EXCEPT ![uri] = None]
    /\ last' = [op |-> "did_close", uri |-> uri, had_entry |-> documents[uri].some,
                notify |-> [method |-> "log_message", type |-> "INFO"]]
    /\ UNCHANGED <<setting, conn>>

\* ------------------------------------------------------------ completion

\* Mutant of u32_sub: the range starts at the cursor, the fragment's length
\* is not subtracted.
u32_sub_none(a, b) == a

\* position.character - pinyin.len() as u32 (line 101).  A negative value
\* stands for the subtraction having underflowed: 2^32 more in a release
\* build, a panic in a debug build.
u32_sub(a, b) == a - b

EmptyArray == [kind |-> "Array", items |-> <<>>]

CompletionList(suggest, range) ==
    [kind |-> "List", is_incomplete |-> TRUE,
     items |-> suggest_to_completion_item(suggest, range)]

\* Mutant of Hit: a query that succeeds counts as a hit, even with no row.
Hit_any_ok(q) == q.ok

Hit(q) == q.ok /\ Len(q.rows) > 0

\* Mutant of cascade: the prefix search of words is tried before the exact
\* match.
cascade_prefix_first(connection, pinyin, range, fails) ==
    LET q1 == query_words(connection, pinyin, FALSE, 1 \in fails)
        q2 == query_words(connection, pinyin, TRUE, 2 \in fails)
        q3 == query_dict(connection, pinyin, 3 \in fails)
    IN  IF q1.ok /\ Len(q1.rows) > 0
        THEN [response |-> CompletionList(q1.rows, range), queries |-> <<1>>]
        ELSE IF q2.ok /\ Len(q2.rows) > 0
        THEN [response |-> CompletionList(q2.rows, range), queries |-> <<1, 2>>]
        ELSE IF q3.ok /\ Len(q3.rows) > 0
        THEN [response |-> CompletionList(q3.rows, range), queries |-> <<1, 2, 3>>]
        ELSE [response |-> EmptyArray, queries |-> <<1, 2, 3>>]

\* Mutant of cascade: all three queries are made first and the best result
\* picked afterwards.
cascade_query_all(connection, pinyin, range, fails) ==
    LET q1 == query_words(connection, pinyin, TRUE, 1 \in fails)
        q2 == query_words(connection, pinyin, FALSE, 2 \in fails)
        q3 == query_dict(connection, pinyin, 3 \in fails)
        best == IF q1.ok /\ Len(q1.rows) > 0 THEN q1.rows
                ELSE IF q2.ok /\ Len(q2.rows) > 0 THEN q2.rows
                ELSE IF q3.ok /\ Len(q3.rows) > 0 THEN q3.rows
                ELSE <<>>
    IN  [response |-> IF best = <<>> THEN EmptyArray ELSE CompletionList(best, range),
         queries |-> <<1, 2, 3>>]

\* Mutant of cascade: a query that fails ends the request with the empty
\* list, the later tiers are not tried.
cascade_abort_on_err(connection, pinyin, range, fails) ==
    LET q1 == query_words(connection, pinyin, TRUE, 1 \in fails)
        q2 == query_words(connection, pinyin, FALSE, 2 \in fails)
        q3 == query_dict(connection, pinyin, 3 \in fails)
    IN  IF ~q1.ok THEN [response |-> EmptyArray, queries |-> <<1>>]
        ELSE IF Len(q1.rows) > 0
        THEN [response |-> CompletionList(q1.rows, range), queries |-> <<1>>]
        ELSE IF ~q2.ok THEN [response |-> EmptyArray, queries |-> <<1, 2>>]
        ELSE IF Len(q2.rows) > 0
        THEN [response |-> CompletionList(q2.rows, range), queries |-> <<1, 2>>]
        ELSE IF q3.ok /\ Len(q3.rows) > 0
        THEN [response |-> CompletionList(q3.rows, range), queries |-> <<1, 2, 3>>]
        ELSE [response |-> EmptyArray, queries |-> <<1, 2, 3>>]

\* Lines 107-135: the three queries under the connection, each tried only
\* when the ones before it gave nothing.  fails is the set of tiers whose
\* query returns Err.  queries lists the queries made, in order.
cascade(connection, pinyin, range, fails) ==
    LET q1 == query_words(connection, pinyin, TRUE, 1 \in fails)
        q2 == query_words(connection, pinyin, FALSE, 2 \in fails)
        q3 == query_dict(connection, pinyin, 3 \in fails)
    IN  IF Hit(q1)
        THEN [response |-> CompletionList(q1.rows, range), queries |-> <<1>>]
        ELSE IF Hit(q2)
        THEN [response |-> CompletionList(q2.rows, range), queries |-> <<1, 2>>]
        ELSE IF Hit(q3)
        THEN [response |-> CompletionList(q3.rows, range), queries |-> <<1, 2, 3>>]
        ELSE [response |-> EmptyArray, queries |-> <<1, 2, 3>>]

\* Mutant of completion_run: the conn lock is taken on entry, before the
\* fragment is looked at.
completion_run_lock_first(document, connection, position, fails) ==
    LET pre_line == unwrap_or(get_pre_line(document, position), <<>>)
        pinyin == unwrap_or(get_pinyin(pre_line), <<>>)
        range == [start |-> [line |-> position.line,
                             character |-> u32_sub(position.character, Len(pinyin))],
                  end |-> position]
        early == [pre_line |-> pre_line, pinyin |-> pinyin, locked |-> TRUE,
                  queries |-> <<>>, result |-> [ok |-> TRUE, value |-> Some(EmptyArray)]]
    IN  IF pre_line = <<>> \/ pinyin = <<>> \/ ~connection.some THEN early
        ELSE LET c == cascade(connection.v, pinyin, range, fails)
             IN  [pre_line |-> pre_line, pinyin |-> pinyin, locked |-> TRUE,
                  queries |-> c.queries,
                  result |-> [ok |-> TRUE, value |-> Some(c.response)]]

\* Mutant of completion_run: the connection is unwrapped, which panics when
\* none is open.
completion_run_unwrap_conn(document, connection, position, fails) ==
    LET pre_line == unwrap_or(get_pre_line(document, position), <<>>)
        pinyin == unwrap_or(get_pinyin(pre_line), <<>>)
        range == [start |-> [line |-> position.line,
                             character |-> u32_sub(position.character, Len(pinyin))],
                  end |-> position]
        early == [pre_line |-> pre_line, pinyin |-> pinyin, locked |-> FALSE,
                  queries |-> <<>>, result |-> [ok |-> TRUE, value |-> Some(EmptyArray)]]
    IN  IF pre_line = <<>> THEN early
        ELSE IF pinyin = <<>> THEN early
        ELSE IF connection.some
        THEN LET c == cascade(connection.v, pinyin, range, fails)
             IN  [pre_line |-> pre_line, pinyin |-> pinyin, locked |-> TRUE,
                  queries |-> c.queries,
                  result |-> [ok |-> TRUE, value |-> Some(c.response)]]
        ELSE [early EXCEPT !.locked = TRUE, !.result = [ok |-> FALSE, value |-> None]]

\* The body of Backend::completion over the document entry and the connection
\* it reads: the response, with what the handler did on the way (the fragment,
\* whether it took the conn lock, the queries it made).
completion_run(document, connection, position, fails) ==
    LET pre_line == unwrap_or(get_pre_line(document, position), <<>>)
        pinyin == unwrap_or(get_pinyin(pre_line), <<>>)
        range == [start |-> [line |-> position.line,
                             character |-> u32_sub(position.character, Len(pinyin))],
                  end |-> position]
        early == [pre_line |-> pre_line, pinyin |-> pinyin, locked |-> FALSE,
                  queries |-> <<>>, result |-> [ok |-> TRUE, value |-> Some(EmptyArray)]]
    IN  IF pre_line = <<>> THEN early
        ELSE IF pinyin = <<>> THEN early
        ELSE IF connection.some
        THEN LET c == cascade(connection.v, pinyin, range, fails)
             IN  [pre_line |-> pre_line, pinyin |-> pinyin, locked |-> TRUE,
                  queries |-> c.queries,
                  result |-> [ok |-> TRUE, value |-> Some(c.response)]]
        ELSE [early EXCEPT !.locked = TRUE]

\* Backend::completion.  fails names the tiers whose query returns Err, among
\* the tiers the request queries.
completion(uri, position, fails) ==
    LET run == completion_run(documents[uri], conn, position, fails)
    IN  /\ fails \subseteq {run.queries[i] : i \in 1..Len(run.queries)}
        /\ last' = [op |-> "completion", uri |-> uri, position |-> position,
                    fails |-> fails, found |-> documents[uri].some,
                    connection |-> conn, run |-> run]
        /\ UNCHANGED <<setting, conn, documents, refdocs>>

\* The tiers a request may query: none unless the handler reaches the
\* cascade.
Tiers(uri, position) ==
    IF completion_run(documents[uri], conn, position, {}).queries = <<>> THEN {} ELSE {1, 2, 3}

\* -------------------------------------------------------- initialization

JString(str) == [type |-> "string", str |-> str]
JNumber == [type |-> "number"]

\* initialization_options: absent, or an object whose "db-path" is absent,
\* not a string, empty, or a path.
InitOptions ==
    {None} \cup {Some([db_path |-> d]) :
                    d \in {None, Some(JNumber), Some(JString(""))}
                          \cup {Some(JString(path)) : path \in DbPaths}}

ShowError(message) == [method |-> "show_message", type |-> "ERROR", message |-> message]
LogInfo(message) == [method |-> "log_message", type |-> "INFO", message |-> message]

\* Mutant of init_run: a Setting, once stored, is kept; a later call does not
\* replace it.
init_run_keep_first(initialization_options, open_ok) ==
    IF ~initialization_options.some
    THEN [setting |-> setting, conn |-> conn, notify |-> ShowError("options missing")]
    ELSE LET db_path == unwrap_or(initialization_options.v.db_path, JString(""))
             kept == IF setting.some THEN setting ELSE Some([db_path |-> db_path.str])
         IN  IF db_path.type # "string"
             THEN [setting |-> setting, conn |-> conn,
                   notify |-> ShowError("db-path must be string")]
             ELSE IF db_path.str = ""
             THEN [setting |-> setting, conn |-> conn,
                   notify |-> ShowError("db-path is missing or empty")]
             ELSE IF open_ok
             THEN [setting |-> kept, conn |-> Some(db_path.str),
                   notify |-> LogInfo("db connection initialized")]
             ELSE [setting |-> kept, conn |-> conn,
                   notify |-> ShowError("Open database error")]

\* Mutant of init_run: the store is opened once; a call that finds a
\* connection set keeps it.
init_run_open_once(initialization_options, open_ok) ==
    IF ~initialization_options.some
    THEN [setting |-> setting, conn |-> conn, notify |-> ShowError("options missing")]
    ELSE LET db_path == unwrap_or(initialization_options.v.db_path, JString(""))
         IN  IF db_path.type # "string"
             THEN [setting |-> setting, conn |-> conn,
                   notify |-> ShowError("db-path must be string")]
             ELSE IF db_path.str = ""
             THEN [setting |-> setting, conn |-> conn,
                   notify |-> ShowError("db-path is missing or empty")]
             ELSE IF open_ok
             THEN [setting |-> Some([db_path |-> db_path.str]),
                   conn |-> IF conn.some THEN conn ELSE Some(db_path.str),
                   notify |-> LogInfo("db connection initialized")]
             ELSE [setting |-> Some([db_path |-> db_path.str]), conn |-> conn,
                   notify |-> ShowError("Open database error")]

\* Backend::init: what it leaves in setting and conn and the notification it
\* sends.  open_ok: whether Connection::open succeeds.
init_run(initialization_options, open_ok) ==
    IF ~initialization_options.some
    THEN [setting |-> setting, conn |-> conn, notify |-> ShowError("options missing")]
    ELSE LET db_path == unwrap_or(initialization_options.v.db_path, JString(""))
         IN  IF db_path.type # "string"
             THEN [setting |-> setting, conn |-> conn,
                   notify |-> ShowError("db-path must be string")]
             ELSE IF db_path.str = ""
             THEN [setting |-> setting, conn |-> conn,
                   notify |-> ShowError("db-path is missing or empty")]
             ELSE IF open_ok
             THEN [setting |-> Some([db_path |-> db_path.str]),
                   conn |-> Some(db_path.str),
                   notify |-> LogInfo("db connection initialized")]
             ELSE [setting |-> Some([db_path |-> db_path.str]), conn |-> conn,
                   notify |-> ShowError("Open database error")]

\* Backend::initialize: init, then the server's capabilities.
initialize(initialization_options, open_ok) ==
    LET run == init_run(initialization_options, open_ok)
    IN  /\ setting' = run.setting
        /\ conn' = run.conn
        /\ last' = [op |-> "initialize", options |-> initialization_options,
                    open_ok |-> open_ok, notify |-> run.notify]
        /\ UNCHANGED <<documents, refdocs>>

\* Backend::shutdown.
shutdown ==
    /\ last' = [op |-> "shutdown"]
    /\ UNCHANGED <<setting, conn, documents, refdocs>>

\* ------------------------------------------------------ specification

\* Server::serve takes the next message once the handler of the last one has
\* returned and its response, if any, is written.
Serve ==
    /\ last # Idle
    /\ last' = Idle
    /\ UNCHANGED <<setting, conn, documents, refdocs, tasks, locks>>

DidOpen ==
    /\ last = Idle
    /\ \E uri \in Uris, text \in OpenTexts : did_open(uri, text)
    /\ UNCHANGED <<tasks, locks>>
DidChange ==
    /\ last = Idle
    /\ \E uri \in Uris, content_changes \in Batches : did_change(uri, content_changes)
    /\ UNCHANGED <<tasks, locks>>
DidClose ==
    /\ last = Idle
    /\ \E uri \in Uris : did_close(uri)
    /\ UNCHANGED <<tasks, locks>>
Completion ==
    /\ last = Idle
    /\ \E uri \in Uris, position \in Positions :
            \E fails \in SUBSET Tiers(uri, position) : completion(uri, position, fails)
    /\ UNCHANGED <<tasks, locks>>
Initialize ==
    /\ last = Idle
    /\ \E initialization_options \in InitOptions, open_ok \in BOOLEAN :
            initialize(initialization_options, open_ok)
    /\ UNCHANGED <<tasks, locks>>
Shutdown ==
    /\ last = Idle
    /\ shutdown
    /\ UNCHANGED <<tasks, locks>>

Next == Serve \/ Initialize \/ Shutdown \/ DidOpen \/ DidChange \/ DidClose \/ Completion

Spec == Init /\ [][Next]_vars

\* ---------------------------------------------------------------- claims

\* The completion request that returned last, if last is one.
IsCompletion == last.op = "completion"
Response == last.run.result.value.v
Labels(response) == [i \in 1..Len(response.items) |-> response.items[i].label]

\* What the store at `path` holds for fragment F at tier t.
TierRows(path, F, t) ==
    IF t = 1 THEN SelectHanzi(WordsTable(path), F, TRUE)
    ELSE IF t = 2 THEN SelectHanzi(WordsTable(path), F, FALSE)
    ELSE SelectHanzi(DictTable(path), F, FALSE)

\* Tier t's query, in the request that returned last, succeeds with at least
\* one result.
Yields(t) ==
    /\ t \notin last.fails
    /\ TierRows(last.connection.v, last.run.pinyin, t) # <<>>

\* C1: a completion request with a non-empty fragment and an open store
\* returns exactly the candidates, in order, of the first tier (1, 2, 3) whose
\* query succeeds with at least one result, and the empty list when no tier
\* does.
C1_FirstYieldingTier ==
    (IsCompletion /\ last.run.pinyin # <<>> /\ last.connection.some) =>
        LET yielding == {t \in 1..3 : Yields(t)}
        IN  /\ last.run.result.ok
            /\ last.run.result.value.some
            /\ IF yielding = {} THEN Response = EmptyArray
               ELSE LET first == CHOOSE t \in yielding : \A s \in yielding : t <= s
                    IN  /\ Response.kind = "List"
                        /\ Labels(Response)
                             = TierRows(last.connection.v, last.run.pinyin, first)

\* C1's case: tier 1 has nothing for the fragment, tier 2 has, and tier 2's
\* rows, which differ from tier 3's, are the response.
C1_Witness ==
    /\ IsCompletion
    /\ last.connection.some
    /\ last.fails = {}
    /\ last.run.queries = <<1, 2>>
    /\ Labels(Response) = <<"W1", "W2">>

\* C2: the queries of one request are tiers 1, 2, 3 in that order, a tier is
\* queried only after every earlier tier failed or returned nothing, and no
\* tier is queried after one that returned a result.
C2_ShortCircuit ==
    IsCompletion =>
        LET queries == last.run.queries
        IN  /\ Len(queries) <= 3
            /\ \A i \in 1..Len(queries) : queries[i] = i
            /\ \A i \in 1..Len(queries) : \A j \in 1..(i - 1) : ~Yields(j)
            /\ \A i \in 1..Len(queries) : Yields(i) => i = Len(queries)

\* C2's case: tier 1 returned a result and tiers 2 and 3, which hold rows for
\* the fragment too, were not queried.
C2_Witness ==
    /\ IsCompletion
    /\ last.run.queries = <<1>>
    /\ Response.kind = "List"
    /\ TierRows(last.connection.v, last.run.pinyin, 2) # <<>>

\* C3: a tier whose query fails counts as a tier with no result: the next
\* tier is queried, the response is never an error, and it is the empty list
\* when the last tier queried fails.
C3_FailureIsEmpty ==
    (IsCompletion /\ last.fails # {}) =>
        /\ last.run.result.ok
        /\ last.run.result.value.some
        /\ \A t \in last.fails : t < 3 =>
               \E i \in 1..Len(last.run.queries) : last.run.queries[i] = t + 1
        /\ (3 \in last.fails => Response = EmptyArray)
        /\ \A t \in last.fails :
               Response.kind = "List" =>
                   \E s \in (t + 1)..3 :
                       /\ Yields(s)
                       /\ Labels(Response)
                            = TierRows(last.connection.v, last.run.pinyin, s)

\* C3's case: every tier's query failed, over a store that holds rows for the
\* fragment.
C3_Witness ==
    /\ IsCompletion
    /\ last.fails = {1, 2, 3}
    /\ TierRows(last.connection.v, last.run.pinyin, 3) # <<>>
    /\ Response = EmptyArray

\* C4: the items of a non-empty response share one range, which ends at the
\* cursor and starts on the cursor's line len(F) columns before it; the
\* fragment is the end of the text before the cursor, so the subtraction
\* does not underflow.
C4_ReplacementRange ==
    (IsCompletion /\ last.run.pinyin # <<>>) =>
        LET F == last.run.pinyin
            cursor == last.position
        IN  /\ Len(Decode(last.run.pre_line)) = cursor.character
            /\ Len(F) <= Len(last.run.pre_line)
            /\ SubSeq(last.run.pre_line, Len(last.run.pre_line) - Len(F) + 1,
                      Len(last.run.pre_line)) = F
            /\ Len(F) <= cursor.character
            /\ \A i \in 1..Len(Response.items) :
                   LET range == Response.items[i].range
                   IN  /\ range.end = cursor
                       /\ range.start.line = cursor.line
                       /\ range.start.character >= 0
                       /\ range.start.character + Len(F) = cursor.character

\* C4's case: a non-empty response whose fragment follows a three-byte
\* character, so that byte and UTF-16 columns differ.
C4_Witness ==
    /\ IsCompletion
    /\ Response.kind = "List"
    /\ Len(last.run.pre_line) > last.position.character
    /\ Response.items[1].range.start.character = 1

\* C5: a completion request returns a present, successful response: the
\* empty list, or a non-empty list marked incomplete.
C5_AlwaysResponds ==
    IsCompletion =>
        /\ last.run.result.ok
        /\ last.run.result.value.some
        /\ \/ Response = EmptyArray
           \/ /\ Response.kind = "List"
              /\ Response.is_incomplete
              /\ Len(Response.items) > 0

\* C5's case: a request for a position the document's index does not hold,
\* with the store open, is answered with the empty list.
C5_Witness ==
    /\ IsCompletion
    /\ last.found
    /\ last.connection.some
    /\ RefOffset(refdocs[last.uri].v, last.position) = -1
    /\ Response = EmptyArray

\* The index of a document describes its text: the line ranges follow one
\* another from offset 0 to the end of the text, every line but the last
\* holds one line feed, as its last byte, or is the unterminated end of the
\* text, and the last line is the empty range at the end of the text.
IndexDescribes(document) ==
    LET t == document.text
        r == document.line_ranges
        n == Len(r)
    IN  /\ n >= 1
        /\ r[1].start = 0
        /\ r[n] = [start |-> Len(t), end |-> Len(t)]
        /\ \A i \in 1..(n - 1) :
               /\ r[i].start < r[i].end
               /\ r[i].end = r[i + 1].start
               /\ \A k \in (r[i].start + 1)..(r[i].end - 1) : t[k] # "LF"
               /\ t[r[i].end] = "LF" \/ (i = n - 1 /\ r[i].end = Len(t))

\* C6: after any sequence of open, change and close, the store holds for
\* every uri what the reference full-text model holds (open sets the text,
\* the changes of a batch apply in list order, each through the text as the
\* change before left it, close removes it), and every stored index
\* describes the stored text.
C6_StoreRefinesReference ==
    \A u \in Uris :
        /\ documents[u].some = refdocs[u].some
        /\ documents[u].some =>
               /\ documents[u].v.text = Encode(refdocs[u].v)
               /\ Decode(documents[u].v.text) = refdocs[u].v
               /\ IndexDescribes(documents[u].v)

\* C6's case: a batch of two changes, both applied, the second through a
\* position that the first one moved, on a text with a three-byte character,
\* while the other document is open too.
C6_Witness ==
    /\ last.op = "did_change"
    /\ \A u \in Uris : documents[u].some
    /\ Len(last.content_changes) = 2
    /\ last.had_entry
    /\ last.steps[1].text # last.steps[2].text
    /\ last.steps[2].text = <<"E4", "B8", "AD", "a">>
    /\ last.content_changes[2].range.some
    /\ last.content_changes[2].range.v.start.character = 1

\* C7: right after a change without a range is applied, the content is the
\* change's text, whatever the content was before.
C7_RangelessReplaces ==
    last.op = "did_change" =>
        \A i \in 1..Len(last.content_changes) :
            ~last.content_changes[i].range.some =>
                /\ Decode(last.steps[i].text) = last.content_changes[i].text
                /\ last.steps[i].text = Encode(last.content_changes[i].text)

\* C7's case: a change without a range comes second in its batch, over a
\* content that the first change left non-empty and different from its text.
C7_Witness ==
    /\ last.op = "did_change"
    /\ Len(last.content_changes) = 2
    /\ ~last.content_changes[2].range.some
    /\ last.steps[1].text # <<>>
    /\ last.steps[1].text # Encode(last.content_changes[2].text)
    /\ last.steps[2].text = Encode(last.content_changes[2].text)

\* C8: a change for a uri without an entry leaves the uri with an entry: the
\* changes applied, in order, to a document over the empty text.
C8_ChangeCreatesEntry ==
    (last.op = "did_change" /\ ~last.had_entry) =>
        /\ documents[last.uri].some
        /\ Decode(documents[last.uri].v.text) = RefChanges(<<>>, last.content_changes)
        /\ IndexDescribes(documents[last.uri].v)

\* C8's case: two changes with ranges for a uri that had no entry, both
\* applied to the document created for it.
C8_Witness ==
    /\ last.op = "did_change"
    /\ ~last.had_entry
    /\ Len(last.content_changes) = 2
    /\ \A i \in 1..2 : last.content_changes[i].range.some
    /\ last.steps[1].text # <<>>
    /\ last.steps[2].text # last.steps[1].text
    /\ documents[last.uri].some

\* C9: did_close leaves the uri without an entry, the other entries as they
\* were (nothing changes when the uri had none) and reports no error; a
\* completion request for a uri without an entry returns the empty list,
\* takes no lock and makes no query.
C9_CloseAndAbsent ==
    [][/\ last'.op = "did_close" =>
              /\ documents' = [documents EXCEPT ![last'.uri] = None]
              /\ (~documents[last'.uri].some => documents' = documents)
              /\ last'.notify.type # "ERROR"
       /\ (last'.op = "completion" /\ ~documents[last'.uri].some) =>
              /\ last'.run.result = [ok |-> TRUE, value |-> Some(EmptyArray)]
              /\ last'.run.queries = <<>>
              /\ ~last'.run.locked]_vars

\* C9's case: a completion request for a uri without an entry, with the
\* store open and another document holding a fragment at that position.
C9_Witness ==
    /\ IsCompletion
    /\ ~last.found
    /\ last.connection.some
    /\ \E u \in Uris : documents[u].some /\ documents[u].v.text = <<"a">>
    /\ last.position = At(0, 1)
    /\ Response = EmptyArray

\* No lowercase letter stands right before the cursor on its line of the
\* reference text: no document, a Position not in the text, the line start,
\* or another character.
NoLetterBeforeCursor ==
    \/ ~refdocs[last.uri].some
    \/ LET cs == refdocs[last.uri].v
           o == RefOffset(cs, last.position)
       IN  \/ o = -1
           \/ o = RefLineStart(cs, last.position.line)
           \/ cs[o] # "a"

\* C10: the fragment is empty exactly when no lowercase letter stands right
\* before the cursor, and a request with an empty fragment returns the empty
\* list without taking the conn lock or making a query.
C10_EmptyFragment ==
    IsCompletion =>
        /\ (last.run.pinyin = <<>>) = NoLetterBeforeCursor
        /\ last.run.pinyin = <<>> =>
               /\ last.run.result = [ok |-> TRUE, value |-> Some(EmptyArray)]
               /\ last.run.queries = <<>>
               /\ ~last.run.locked

\* C10's case: the cursor follows a character that is not a letter, after a
\* letter, with the store open.
C10_Witness ==
    /\ IsCompletion
    /\ last.connection.some
    /\ last.run.pinyin = <<>>
    /\ last.run.pre_line = <<"a", "E4", "B8", "AD">>
    /\ ~last.run.locked

\* C11: a completion request served while no connection is open returns the
\* empty list, whatever the document and the cursor: it makes no query and it
\* does not panic (the handler returns Ok, and the range start it computes at
\* line 101 does not underflow).
C11_UnsetHandleEmpty ==
    (IsCompletion /\ ~last.connection.some) =>
        /\ last.run.result = [ok |-> TRUE, value |-> Some(EmptyArray)]
        /\ last.run.queries = <<>>
        /\ u32_sub(last.position.character, Len(last.run.pinyin)) >= 0

\* C11's case: a request with a fragment before the cursor reaches the conn
\* lock and finds no connection, after an init whose open failed.
C11_Witness ==
    /\ IsCompletion
    /\ ~last.connection.some
    /\ setting.some
    /\ last.run.pinyin = <<"a">>
    /\ last.run.locked
    /\ Response = EmptyArray

\* The init call that returned last, if last is one.
IsInit == last.op = "initialize"

\* The payload names a store: "db-path" is a non-empty string.
NamesStore(options) ==
    /\ options.some
    /\ options.v.db_path.some
    /\ options.v.db_path.v.type = "string"
    /\ options.v.db_path.v.str # ""

\* The init call that returned last opened a store.
OpenedStore == NamesStore(last.options) /\ last.open_ok

\* C12: when an init call that opens no store returns (no payload, no
\* db-path, a db-path that is no string or is empty, or a path whose open
\* fails), it has sent an error notification and no connection is set,
\* whatever init calls came before it.
C12_FailedInitUnsetsHandle ==
    (IsInit /\ ~OpenedStore) =>
        /\ last.notify.type = "ERROR"
        /\ ~conn.some

\* C12's case: an init call that opens no store returns on a session whose
\* connection an earlier init call opened.
C12_Witness ==
    /\ IsInit
    /\ ~OpenedStore
    /\ last.notify.type = "ERROR"
    /\ conn.some

\* C13 as stated: a Setting, once stored, is never changed by any later
\* operation.
C13_SettingImmutable ==
    [][setting.some => setting' = setting]_vars

\* C13, amended: the Setting is written by init calls whose payload names a
\* store, and by nothing else.  Such a call stores the location it names,
\* replacing any Setting stored before, whether or not the open succeeds;
\* every other operation, an init call with any other payload included,
\* leaves the Setting as it was.  So a stored Setting is never removed.
C13_SettingWrittenByNamingInit ==
    [][IF last'.op = "initialize" /\ NamesStore(last'.options)
       THEN setting' = Some([db_path |-> last'.options.v.db_path.v.str])
       ELSE setting' = setting]_vars

\* C13's case: an init call naming p2 has replaced the Setting of an earlier
\* init call, which named p1 and opened it.
C13_Witness ==
    /\ IsInit
    /\ NamesStore(last.options)
    /\ ~last.open_ok
    /\ conn = Some("p1")
    /\ setting = Some([db_path |-> "p2"])

MaxCompleters == 1

\* The requests in flight: two initialize requests, a did_open, two
\* did_change and a did_close of one document, and MaxCompleters completion
\* requests at the end of its first line.
Requests ==
    {<<"initialize", 1>>, <<"initialize", 2>>, <<"did_open", 1>>, <<"did_change", 1>>,
     <<"did_change", 2>>, <<"did_close", 1>>}
        \cup {<<"completion", n>> : n \in 1..MaxCompleters}

Method(p) == p[1]

\* The document the requests are about, the text did_open brings, the changes
\* of the did_change (each puts a letter at the start of the text) and the
\* cursor of the completion requests.
TheUri == "u1"
TheText == <<"a">>
TheChanges == [i \in 1..MaxBatch |-> Insert(At(0, 0), <<"a">>)]
TheCursor == At(0, 1)

\* The documents these requests can leave in the entry: some letters on one
\* line.  For each of them, what a turn of the loop of did_change makes of
\* it, and the pre_line and pinyin a completion request finds in it.
TheDocuments ==
    {IndexedText_new(Encode([i \in 1..n |-> "a"])) : n \in 0..(Len(TheText) + 2 * MaxBatch)}

Stepped ==
    [document \in TheDocuments |->
        [next \in 1..MaxBatch |-> change_step(document, TheChanges[next])]]

Fragment ==
    [document \in {None} \cup {Some(d) : d \in TheDocuments} |->
        LET pre_line == unwrap_or(get_pre_line(document, TheCursor), <<>>)
        IN  [pre_line |-> pre_line, pinyin |-> unwrap_or(get_pinyin(pre_line), <<>>)]]

\* What the initialize requests bring.
TheOptions ==
    {None, Some([db_path |-> None])}
        \cup {Some([db_path |-> Some(JString(path))]) : path \in DbPaths}

Received == [pc |-> "received"]
Returned(p) == tasks[p].pc = "returned"

\* Every request is received and no handler has started.
ConcInit ==
    /\ setting = None
    /\ conn = None
    /\ documents = [u \in Uris |-> None]
    /\ refdocs = [u \in Uris |-> None]
    /\ last = Idle
    /\ tasks = [p \in Requests |-> Received]
    /\ locks = Unlocked

\* Mutex::lock().await returns when no guard of the Mutex is alive.
MutexFree(m) == locks[m] = {}

\* A DashMap guard for writing (entry, insert, remove) is given when no guard
\* of the entry is alive; a guard for reading (get) when no writing guard is.
EntryFreeMut == locks.entry_mut = {} /\ locks.entry_ref = {}
EntryFreeRef == locks.entry_mut = {}

\* The guards of p are dropped.
Release(p) == [m \in DOMAIN locks |-> locks[m] \ {p}]

\* ---- Backend::init, called by initialize

\* Lines 144-177 and 196-202: without options the handler goes to its error
\* notification.  With options it locks setting and looks at db-path: one
\* that is no string or is empty sends it to the error notification; else it
\* stores the Setting and opens the store.  open_ok: whether Connection::open
\* succeeds.
InitConfigure(p) ==
    /\ Method(p) = "initialize"
    /\ tasks[p].pc = "received"
    /\ \E initialization_options \in TheOptions, open_ok \in BOOLEAN :
          IF ~initialization_options.some
          THEN /\ tasks' = [tasks EXCEPT ![p] =
                               [pc |-> "notify", notify |-> ShowError("options missing")]]
               /\ UNCHANGED <<setting, locks>>
          ELSE LET db_path == unwrap_or(initialization_options.v.db_path, JString(""))
               IN  /\ MutexFree("setting")
                   /\ locks' = [locks EXCEPT !.setting = {p}]
                   /\ IF db_path.type # "string"
                      THEN /\ tasks' = [tasks EXCEPT ![p] =
                                           [pc |-> "notify",
                                            notify |-> ShowError("db-path must be string")]]
                           /\ UNCHANGED setting
                      ELSE IF db_path.str = ""
                      THEN /\ tasks' = [tasks EXCEPT ![p] =
                                           [pc |-> "notify",
                                            notify |-> ShowError("db-path is missing or empty")]]
                           /\ UNCHANGED setting
                      ELSE /\ setting' = Some([db_path |-> db_path.str])
                           /\ tasks' = [tasks EXCEPT ![p] =
                                           IF open_ok
                                           THEN [pc |-> "lock_conn", opened |-> db_path.str]
                                           ELSE [pc |-> "notify",
                                                 notify |-> ShowError("Open database error")]]
    /\ UNCHANGED <<conn, documents, refdocs, last>>

\* Lines 179-180: lock conn and put the opened connection there; the
\* connection that was there is dropped.
InitSetConn(p) ==
    /\ Method(p) = "initialize"
    /\ tasks[p].pc = "lock_conn"
    /\ MutexFree("conn")
    /\ locks' = [locks EXCEPT !.conn = {p}]
    /\ conn' = Some(tasks[p].opened)
    /\ tasks' = [tasks EXCEPT ![p] =
                    [pc |-> "notify", notify |-> LogInfo("db connection initialized")]]
    /\ UNCHANGED <<setting, documents, refdocs, last>>

\* Mutant of InitNotify: before it returns, init removes the document from
\* the store, under the guards it holds.
InitNotify_remove_document(p) ==
    /\ Method(p) = "initialize"
    /\ tasks[p].pc = "notify"
    /\ EntryFreeMut
    /\ documents' = [documents EXCEPT ![TheUri] = None]
    /\ tasks' = [tasks EXCEPT ![p] = [pc |-> "returned", notify |-> tasks[p].notify]]
    /\ locks' = Release(p)
    /\ UNCHANGED <<setting, conn, refdocs, last>>

\* Lines 153-156, 181-192, 197-202: the notification is sent and init
\* returns, which drops the guards it holds.
InitNotify(p) ==
    /\ Method(p) = "initialize"
    /\ tasks[p].pc = "notify"
    /\ tasks' = [tasks EXCEPT ![p] = [pc |-> "returned", notify |-> tasks[p].notify]]
    /\ locks' = Release(p)
    /\ UNCHANGED <<setting, conn, documents, refdocs, last>>
\* ---- the document handlers

\* A did_change is inside its loop: it has taken the entry and not returned.
\* The handlers that read or write the entry note, in in_batch, whether one
\* was when they did.
InBatch == \E q \in Requests : Method(q) = "did_change" /\ tasks[q].pc = "loop"

\* Backend::did_open (lines 48-53): insert holds the entry for the time of the
\* call.
OpenInsert(p) ==
    /\ Method(p) = "did_open"
    /\ tasks[p].pc = "received"
    /\ EntryFreeMut
    /\ documents' = [documents EXCEPT ![TheUri] = Some(IndexedText_new(Encode(TheText)))]
    /\ tasks' = [tasks EXCEPT ![p] = [pc |-> "returned", in_batch |-> InBatch]]
    /\ UNCHANGED <<setting, conn, refdocs, last, locks>>

\* Lines 56-59: entry(uri).or_insert(..) takes the guard for writing, which
\* the handler keeps in `document`; an entry over the empty text is made
\* where there was none.  next: the change the loop is at.
ChangeEntry(p) ==
    /\ Method(p) = "did_change"
    /\ tasks[p].pc = "received"
    /\ EntryFreeMut
    /\ locks' = [locks EXCEPT !.entry_mut = {p}]
    /\ documents' = [documents EXCEPT ![TheUri] = Some(entry_or_insert(TheUri))]
    /\ tasks' = [tasks EXCEPT ![p] = [pc |-> "loop", next |-> 1]]
    /\ UNCHANGED <<setting, conn, refdocs, last>>

\* Mutant of ChangeApply: the entry is taken anew for every change, its guard
\* dropped after it.
ChangeApply_guard_per_change(p) ==
    /\ Method(p) = "did_change"
    /\ tasks[p].pc = "loop"
    /\ tasks[p].next <= Len(TheChanges)
    /\ EntryFreeMut \/ locks.entry_mut = {p}
    /\ documents' = [documents EXCEPT
                        ![TheUri] = Some(Stepped[entry_or_insert(TheUri)][tasks[p].next])]
    /\ tasks' = [tasks EXCEPT ![p].next = @ + 1]
    /\ locks' = Release(p)
    /\ UNCHANGED <<setting, conn, refdocs, last>>

\* Lines 63-68: one turn of the loop, through the guard the handler holds.
ChangeApply(p) ==
    /\ Method(p) = "did_change"
    /\ tasks[p].pc = "loop"
    /\ tasks[p].next <= Len(TheChanges)
    /\ documents' = [documents EXCEPT
                        ![TheUri] = Some(Stepped[documents[TheUri].v][tasks[p].next])]
    /\ tasks' = [tasks EXCEPT ![p].next = @ + 1]
    /\ UNCHANGED <<setting, conn, refdocs, last, locks>>

\* Line 69: the loop is over, did_change returns and `document` is dropped.
ChangeReturn(p) ==
    /\ Method(p) = "did_change"
    /\ tasks[p].pc = "loop"
    /\ tasks[p].next > Len(TheChanges)
    /\ tasks' = [tasks EXCEPT ![p] = [pc |-> "returned"]]
    /\ locks' = Release(p)
    /\ UNCHANGED <<setting, conn, documents, refdocs, last>>

\* Line 75: remove holds the entry for the time of the call.
CloseRemove(p) ==
    /\ Method(p) = "did_close"
    /\ tasks[p].pc = "received"
    /\ EntryFreeMut
    /\ documents' = [documents EXCEPT ![TheUri] = None]
    /\ tasks' = [tasks EXCEPT ![p] = [pc |-> "notify", in_batch |-> InBatch]]
    /\ UNCHANGED <<setting, conn, refdocs, last, locks>>

\* Lines 77-79: the close is logged, with no guard held.
CloseNotify(p) ==
    /\ Method(p) = "did_close"
    /\ tasks[p].pc = "notify"
    /\ tasks' = [tasks EXCEPT ![p].pc = "returned"]
    /\ UNCHANGED <<setting, conn, documents, refdocs, last, locks>>
\* ---- Backend::completion

\* The query of tier t (lines 108, 118, 128).
query_tier(connection, pinyin, t) ==
    IF t = 1 THEN query_words(connection, pinyin, TRUE, FALSE)
    ELSE IF t = 2 THEN query_words(connection, pinyin, FALSE, FALSE)
    ELSE query_dict(connection, pinyin, FALSE)

\* Lines 83-104: get(uri) takes a guard for reading when there is an entry;
\* the handler keeps it in `document` until it returns.  An empty pre_line or
\* pinyin makes it return at once.  in_batch: whether a did_change was
\* inside its loop when the entry was read.
CompletionGet(p) ==
    /\ Method(p) = "completion"
    /\ tasks[p].pc = "received"
    /\ EntryFreeRef
    /\ LET document == documents[TheUri]
           pre_line == Fragment[document].pre_line
           pinyin == Fragment[document].pinyin
       IN  IF pre_line = <<>> \/ pinyin = <<>>
           THEN /\ tasks' = [tasks EXCEPT ![p] =
                                [pc |-> "returned", document |-> document,
                                 in_batch |-> InBatch, pinyin |-> pinyin, used |-> <<>>,
                                 response |-> EmptyArray]]
                /\ UNCHANGED locks
           ELSE /\ tasks' = [tasks EXCEPT ![p] =
                                [pc |-> "lock_conn", document |-> document,
                                 in_batch |-> InBatch, pinyin |-> pinyin]]
                /\ locks' = [locks EXCEPT !.entry_ref = @ \cup {p}]
    /\ UNCHANGED <<setting, conn, documents, refdocs, last>>

\* The handler returns `response`: the guards it holds are dropped.
CompletionReturns(p, used, response) ==
    /\ tasks' = [tasks EXCEPT ![p] =
                    [pc |-> "returned", document |-> tasks[p].document,
                     in_batch |-> tasks[p].in_batch, pinyin |-> tasks[p].pinyin,
                     used |-> used, response |-> response]]
    /\ locks' = Release(p)

\* Line 106: lock conn.  With no connection there the handler returns the
\* empty list (line 138); else it goes to the first query.
CompletionLockConn(p) ==
    /\ Method(p) = "completion"
    /\ tasks[p].pc = "lock_conn"
    /\ MutexFree("conn")
    /\ IF conn.some
       THEN /\ tasks' = [tasks EXCEPT ![p] =
                            [pc |-> "query", document |-> tasks[p].document,
                             in_batch |-> tasks[p].in_batch, pinyin |-> tasks[p].pinyin,
                             tier |-> 1, used |-> <<>>]]
            /\ locks' = [locks EXCEPT !.conn = {p}]
       ELSE CompletionReturns(p, <<>>, EmptyArray)
    /\ UNCHANGED <<setting, conn, documents, refdocs, last>>

\* Mutant of CompletionQuery: the guard of conn is dropped after each query
\* and the connection read again for the next.
CompletionQuery_lock_per_query(p) ==
    /\ Method(p) = "completion"
    /\ tasks[p].pc = "query"
    /\ MutexFree("conn") \/ locks.conn = {p}
    /\ conn.some
    /\ LET q == query_tier(conn.v, tasks[p].pinyin, tasks[p].tier)
           used == Append(tasks[p].used, conn.v)
           range == [start |-> [line |-> TheCursor.line,
                                character |-> u32_sub(TheCursor.character,
                                                      Len(tasks[p].pinyin))],
                     end |-> TheCursor]
       IN  IF Hit(q) THEN CompletionReturns(p, used, CompletionList(q.rows, range))
           ELSE IF tasks[p].tier = 3 THEN CompletionReturns(p, used, EmptyArray)
           ELSE /\ tasks' = [tasks EXCEPT ![p].tier = @ + 1, ![p].used = used]
                /\ locks' = [locks EXCEPT !.conn = {}]
    /\ UNCHANGED <<setting, conn, documents, refdocs, last>>

\* Lines 107-135: the query of the tier the handler is at, on the connection
\* under the guard it holds; a hit is returned, a miss or an error leads to
\* the next tier, and after the last to the empty list.  used: the
\* connection each query was made on.
CompletionQuery(p) ==
    /\ Method(p) = "completion"
    /\ tasks[p].pc = "query"
    /\ LET q == query_tier(conn.v, tasks[p].pinyin, tasks[p].tier)
           used == Append(tasks[p].used, conn.v)
           range == [start |-> [line |-> TheCursor.line,
                                character |-> u32_sub(TheCursor.character,
                                                      Len(tasks[p].pinyin))],
                     end |-> TheCursor]
       IN  IF Hit(q) THEN CompletionReturns(p, used, CompletionList(q.rows, range))
           ELSE IF tasks[p].tier = 3 THEN CompletionReturns(p, used, EmptyArray)
           ELSE /\ tasks' = [tasks EXCEPT ![p].tier = @ + 1, ![p].used = used]
                /\ UNCHANGED locks
    /\ UNCHANGED <<setting, conn, documents, refdocs, last>>

\* ---- the specification of the concurrent requests

HandlerStep(p) ==
    \/ InitConfigure(p)
    \/ InitSetConn(p)
    \/ InitNotify(p)
    \/ OpenInsert(p)
    \/ ChangeEntry(p)
    \/ ChangeApply(p)
    \/ ChangeReturn(p)
    \/ CloseRemove(p)
    \/ CloseNotify(p)
    \/ CompletionGet(p)
    \/ CompletionLockConn(p)
    \/ CompletionQuery(p)

ConcNext == \E p \in Requests : HandlerStep(p)

ConcSpec == ConcInit /\ [][ConcNext]_vars

\* The same with one did_change in flight, the other having returned before
\* the rest is received and left its entry in the store, and with the
\* scheduling stated: the runtime polls every handler that can go on, and the
\* client takes the notifications it is sent, so a handler whose next step
\* stays possible takes it.
FairInit ==
    /\ setting = None
    /\ conn = None
    /\ documents = [u \in Uris |->
                       IF u = TheUri
                       THEN Some(Changed(IndexedText_new(<<>>),
                                         change_loop(IndexedText_new(<<>>), TheChanges)))
                       ELSE None]
    /\ refdocs = [u \in Uris |-> None]
    /\ last = Idle
    /\ tasks = [p \in Requests |->
                   IF p = <<"did_change", 2>> THEN [pc |-> "returned"] ELSE Received]
    /\ locks = Unlocked

FairSpec == FairInit /\ [][ConcNext]_vars /\ \A p \in Requests : WF_vars(HandlerStep(p))

\* The completion requests that are at their queries.
Querying == {p \in Requests : Method(p) = "completion" /\ tasks[p].pc = "query"}

\* The store connections that are open: the one in conn, and the one an init
\* has opened (line 177) and not yet put there (line 180).
OpenConnections ==
    (IF conn.some THEN 1 ELSE 0)
        + Cardinality({p \in Requests : Method(p) = "initialize" /\ tasks[p].pc = "lock_conn"})

\* The part of C15 about the conn Mutex: at most one request holds its guard;
\* a completion request holds it from before its first query until it
\* returns, and every query it makes is on the connection that is in conn
\* throughout, so no init has put another there in between.
ConnRegionExclusive ==
    /\ Cardinality(locks.conn) <= 1
    /\ \A p \in Querying :
          /\ locks.conn = {p}
          /\ conn.some
          /\ \A i \in 1..Len(tasks[p].used) : tasks[p].used[i] = conn.v
    /\ \A p \in Requests :
          (Method(p) = "completion" /\ Returned(p)) =>
              \A i, j \in 1..Len(tasks[p].used) : tasks[p].used[i] = tasks[p].used[j]

\* C15: the queries exclude each other (at most one request is in the conn
\* region, the tier queries of a completion request are made in one hold of
\* it, init does not replace the connection between them), and at most one
\* store connection is open at any time.
C15_QueriesExclusive ==
    /\ ConnRegionExclusive
    /\ OpenConnections <= 1

\* C15's case: a completion request is past its first query on the store an
\* init has opened, while a further init has opened a store and waits for
\* conn.
C15_Witness ==
    /\ \E p \in Querying : tasks[p].used # <<>>
    /\ \E p \in Requests : Method(p) = "initialize" /\ Returned(p)
    /\ \E p \in Requests : Method(p) = "initialize" /\ tasks[p].pc = "lock_conn"
    /\ OpenConnections = 2

Observers == {p \in Requests : "in_batch" \in DOMAIN tasks[p]}

\* C17: the entry is held by at most one writer, and by no reader with it; a
\* did_change holds it for writing from the lookup that finds or makes the
\* entry until its last change is applied and it returns; so no completion
\* request, did_open, did_close or other did_change reads or writes the entry
\* while a did_change is inside its loop, and the document a completion
\* request reads, like the one in the store, carries the index of its own
\* text.
C17_EntryExclusive ==
    /\ Cardinality(locks.entry_mut) <= 1
    /\ locks.entry_mut # {} => locks.entry_ref = {}
    /\ \A p \in Requests :
          (Method(p) = "did_change" /\ tasks[p].pc = "loop") => locks.entry_mut = {p}
    /\ \A p \in Observers : ~tasks[p].in_batch
    /\ \A p \in Observers :
          ("document" \in DOMAIN tasks[p] /\ tasks[p].document.some) =>
              IndexDescribes(tasks[p].document.v)
    /\ documents[TheUri].some => IndexDescribes(documents[TheUri].v)

\* C17's case: a did_change is between two changes of its batch, on an entry
\* it has made, while a completion request, the other did_change, the
\* did_open and the did_close are all waiting to get at the entry.
C17_Witness ==
    /\ \E p \in Requests :
          /\ Method(p) = "did_change"
          /\ tasks[p].pc = "loop"
          /\ tasks[p].next = 2
          /\ documents[TheUri].v.text = <<"a">>
    /\ \A p \in Requests :
          Method(p) \in {"completion", "did_open", "did_close"} => tasks[p].pc = "received"
    /\ \E p \in Requests : Method(p) = "did_change" /\ tasks[p].pc = "received"

\* C18: whenever a connection is set, a Setting is stored and the connection
\* was opened on the location the Setting holds.
C18_HandleMatchesSetting ==
    conn.some => (setting.some /\ setting.v.db_path = conn.v)

\* C18's case: a completion request is answered from the store of an earlier
\* init while the Setting holds the location of a later one, whose open
\* failed.
C18_Witness ==
    /\ IsCompletion
    /\ last.connection.some
    /\ setting.some
    /\ setting.v.db_path # last.connection.v
    /\ Response # EmptyArray

\* C19: did_open, did_change and did_close of a uri leave the document of
\* every other uri, the Setting and the connection as they were; a
\* completion request leaves every document, the Setting and the connection
\* as they were; an init call leaves every document as it was.
C19_Frame ==
    [][/\ last'.op \in {"did_open", "did_change", "did_close"} =>
              /\ \A u \in Uris \ {last'.uri} : documents'[u] = documents[u]
              /\ setting' = setting
              /\ conn' = conn
       /\ last'.op = "completion" =>
              /\ documents' = documents
              /\ setting' = setting
              /\ conn' = conn
       /\ last'.op = "initialize" => documents' = documents]_vars

\* C19's case: a did_close has removed the entry of its uri while the other
\* uri has a document and the session a Setting and a connection.
C19_Witness ==
    /\ last.op = "did_close"
    /\ last.had_entry
    /\ \E u \in Uris \ {last.uri} : documents[u].some /\ documents[u].v.text # <<>>
    /\ setting.some
    /\ conn.some

\* The range of the change is not in the text: one of its Positions is on no
\* line of it, or past the end of its line.
OutOfRange(cs, change) ==
    /\ change.range.some
    /\ RefOffset(cs, change.range.v.start) = -1 \/ RefOffset(cs, change.range.v.end) = -1

\* C20: in a did_change, a change whose range is not in the text as the
\* changes before it left it is passed over: text and index stay exactly as
\* they were.  Every other change of the batch is applied to what the
\* changes before it left, those after a change passed over included, and
\* the entry ends as the last change left it: the handler has no error to
\* return.
C20_UntranslatableSkipped ==
    [][last'.op = "did_change" =>
          LET entry == entry_or_insert(last'.uri)
              steps == last'.steps
              before(i) == IF i = 1 THEN entry ELSE steps[i - 1]
          IN  /\ Len(steps) = Len(last'.content_changes)
              /\ \A i \in 1..Len(steps) :
                    IF OutOfRange(Decode(before(i).text), last'.content_changes[i])
                    THEN steps[i] = before(i)
                    ELSE /\ Decode(steps[i].text)
                              = RefChange(Decode(before(i).text), last'.content_changes[i])
                         /\ IndexDescribes(steps[i])
              /\ documents'[last'.uri] = Some(Changed(entry, steps))]_vars

\* C20's case: the first change of a batch is at a column the empty text
\* does not have and is passed over, the second is applied.
C20_Witness ==
    /\ last.op = "did_change"
    /\ ~last.had_entry
    /\ last.content_changes = <<Insert(At(0, 1), <<"a">>), Insert(At(0, 0), <<"U4E2D">>)>>
    /\ last.steps[1].text = <<>>
    /\ last.steps[2].text = Encode(<<"U4E2D">>)
    /\ documents[last.uri] = Some(last.steps[2])

====
